---- MODULE Spec2Model ----
(***************************************************************************)
(* Model of src/di.py: DependencyContainer, a dependency-injection         *)
(* container with an instance cache (__container), a build-in-progress     *)
(* set (build_stack) and the operations get / set / __build.               *)
(*                                                                         *)
(* The recursion of get -> __build -> get is modelled as an explicit call  *)
(* stack of get-frames; each frame carries the position (pc) of that       *)
(* call inside get/__build.  A raised exception travels in exc and is      *)
(* unwound one get-frame at a time through the handler of get.             *)
(***************************************************************************)
EXTENDS Integers, Sequences, FiniteSets, TLC

\* ------------------------------------------------------------------------
\* Bounds of the model
\* ------------------------------------------------------------------------
MaxStubs == 2   \* distinct caller-made instances handed to set
MaxSets  == 2   \* top-level set calls per behaviour
MaxCtor  == 5   \* completed constructor calls per behaviour
MaxDepth == 6   \* nested get calls (the interpreter's recursion limit)

\* ------------------------------------------------------------------------
\* Types, dependency graphs (what typing.get_type_hints and the
\* constructors of the registered classes do)
\* ------------------------------------------------------------------------
Types == {"A", "B", "C", "D"}

\* ctor kinds: what cls.__call__(...) does
\*   "ok"             returns a new instance
\*   "NotCallable"    raises TypeError because the type cannot be built from
\*                    objects (typing.List, a class with unannotated
\*                    required parameters): the unresolvable case
\*   "ValueError"     the constructor body raises a non-TypeError exception
\*   "BodyTypeError"  the constructor body raises a TypeError of its own
CtorKinds == {"ok", "NotCallable", "ValueError", "BodyTypeError"}

AllOk == [t \in Types |-> "ok"]

\* Car/Engine style chain plus diamond: A(b: B, c: C), B(d: D), C(d: D), D()
Diamond ==
  [name  |-> "Diamond", types |-> {"A", "B", "C", "D"},
   hints |-> [t \in Types |-> CASE t = "A" -> <<"B", "C">>
                                [] t = "B" -> <<"D">>
                                [] t = "C" -> <<"D">>
                                [] OTHER   -> <<>>],
   ctor  |-> AllOk]

\* A(b: B), B(a: A); C(d: D), D() unrelated to the cycle
Cycle ==
  [name  |-> "Cycle", types |-> {"A", "B", "C", "D"},
   hints |-> [t \in Types |-> CASE t = "A" -> <<"B">>
                                [] t = "B" -> <<"A">>
                                [] t = "C" -> <<"D">>
                                [] OTHER   -> <<>>],
   ctor  |-> AllOk]

\* A(a: A) self reference; B(a: A, c: C); C()
SelfRef ==
  [name  |-> "SelfRef", types |-> {"A", "B", "C"},
   hints |-> [t \in Types |-> CASE t = "A" -> <<"A">>
                                [] t = "B" -> <<"A", "C">>
                                [] OTHER   -> <<>>],
   ctor  |-> AllOk]

\* A(b: B) -> B(c: C) -> C(a: A): cycle of length three
Cycle3 ==
  [name  |-> "Cycle3", types |-> {"A", "B", "C"},
   hints |-> [t \in Types |-> CASE t = "A" -> <<"B">>
                                [] t = "B" -> <<"C">>
                                [] t = "C" -> <<"A">>
                                [] OTHER   -> <<>>],
   ctor  |-> AllOk]

\* A(b: B), B(c: C), C is not constructible from objects (two levels down)
Unresolvable ==
  [name  |-> "Unresolvable", types |-> {"A", "B", "C"},
   hints |-> [t \in Types |-> CASE t = "A" -> <<"B">>
                                [] t = "B" -> <<"C">>
                                [] OTHER   -> <<>>],
   ctor  |-> [AllOk EXCEPT !["C"] = "NotCallable"]]

\* A(c: C, b: B), B(c: C): C() is fine, B's constructor body raises
Raising ==
  [name  |-> "Raising", types |-> {"A", "B", "C"},
   hints |-> [t \in Types |-> CASE t = "A" -> <<"C", "B">>
                                [] t = "B" -> <<"C">>
                                [] OTHER   -> <<>>],
   ctor  |-> [AllOk EXCEPT !["B"] = "ValueError"]]

\* the same with the parameters of A declared in the other order
RaisingSwapped ==
  [name  |-> "RaisingSwapped", types |-> {"A", "B", "C"},
   hints |-> [t \in Types |-> CASE t = "A" -> <<"B", "C">>
                                [] t = "B" -> <<"C">>
                                [] OTHER   -> <<>>],
   ctor  |-> [AllOk EXCEPT !["B"] = "ValueError"]]

\* A(b: B), B(c: C): C's constructor body raises a TypeError of its own
BodyRaises ==
  [name  |-> "BodyRaises", types |-> {"A", "B", "C"},
   hints |-> [t \in Types |-> CASE t = "A" -> <<"B">>
                                [] t = "B" -> <<"C">>
                                [] OTHER   -> <<>>],
   ctor  |-> [AllOk EXCEPT !["C"] = "BodyTypeError"]]

Graphs == {Diamond, Cycle, SelfRef, Cycle3, Unresolvable, Raising,
           RaisingSwapped, BodyRaises}

\* ------------------------------------------------------------------------
\* Instances and exceptions
\* ------------------------------------------------------------------------
\* An instance is identified by the class that built it and the ordinal of
\* that construction; instances made by the caller are the stubs.
NoEntry == [cls |-> "none", n |-> 0]
Stubs   == {[cls |-> "stub", n |-> k] : k \in 1..MaxStubs}
NewInstance(cls, n) == [cls |-> cls, n |-> n]

\* kind: the Python exception class; name: the type named in the message;
\* cause/origin: where and why the first raise happened (the __context__
\* chain of the Python exception)
NoExc == [kind |-> "none", name |-> "none", cause |-> "none", origin |-> "none"]

VARIABLES
  graph,        \* the classes known to the program (fixed per behaviour)
  container,    \* self.__container: type -> instance, NoEntry when absent
  build_stack,  \* self.build_stack: set of types (the dict's keys)
  stack,        \* active get calls, innermost last
  exc,          \* exception in flight, NoExc when none
  ctorLog,      \* types in the order their constructors completed
  objs,         \* objs[T]: arguments the latest built T was constructed with
  invoked,      \* types whose constructor has been called
  result,       \* outcome of the latest completed top-level get
  call,         \* what held when the latest top-level get was called
  lastGot,      \* lastGot[T]: what get(T) last returned since set(T, _)
  lastSet,      \* lastSet[T]: instance of the latest top-level set(T, _)
  firstOp,      \* firstOp[T]: "none", "get" or "set": first call naming T
  nsets,        \* number of top-level set calls so far
  everFailed,   \* some top-level get has failed
  setInBuild    \* types whose latest set ran while their own build was on

vars == <<graph, container, build_stack, stack, exc, ctorLog, objs, invoked,
          result, call, lastGot, lastSet, firstOp, nsets, everFailed,
          setInBuild>>

NoResult == [cls |-> "none", status |-> "none", val |-> NoEntry, err |-> NoExc]
NoCall   == [cls |-> "none", fresh |-> FALSE, resolvable |-> FALSE,
             selfdep |-> FALSE, cyclic |-> FALSE, unrelated |-> FALSE,
             afterFailure |-> FALSE, prev |-> NoEntry,
             st0 |-> [c |-> [t \in Types |-> NoEntry], bs |-> {},
                      objs |-> [t \in Types |-> <<>>], log |-> <<>>]]

\* ------------------------------------------------------------------------
\* Pure helpers translated from the source
\* ------------------------------------------------------------------------
Range(s) == {s[i] : i \in 1..Len(s)}

\* line 98: params = typing.get_type_hints(cls.__init__).copy()
\* (an ordered dict: parameters in declaration order)
get_type_hints(cls) == graph.hints[cls]

\* variant: only an instance of cls itself counts as present
InContainer_ownOnly(c, cls) == c[cls] # NoEntry /\ c[cls].cls = cls

\* line 54: cls in self.__container
InContainer(c, cls) == c[cls] # NoEntry

\* line 55: self.__container[cls]
Lookup(c, cls) == c[cls]

\* variant: setdefault, an existing entry is kept
set_default(c, cls_name, set_instance) ==
  IF c[cls_name] = NoEntry THEN [c EXCEPT ![cls_name] = set_instance] ELSE c

\* variant: the entry is not written
set_dropped(c, cls_name, set_instance) == c

\* line 82: self.__container[cls_name] = set_instance
set(c, cls_name, set_instance) == [c EXCEPT ![cls_name] = set_instance]

\* lines 15-17: the class takes exactly one positional argument (message);
\* instantiating it with any other number of arguments raises TypeError
\* instead of producing the exception object.
CircularDependencyError(args, cls) ==
  IF Len(args) = 1
    THEN [kind |-> "CircularDependencyError", name |-> args[1],
          cause |-> "cycle", origin |-> cls]
    ELSE [kind |-> "TypeError", name |-> "none",
          cause |-> "cycle", origin |-> cls]

\* line 104: raise CircularDependencyError   (no arguments)
RaiseCircular(cls) == CircularDependencyError(<<>>, cls)

\* lines 100 and 113: cls.__call__(...) raising instead of returning
CtorRaises(cls) == graph.ctor[cls] # "ok"

CtorException(cls) ==
  CASE graph.ctor[cls] = "NotCallable" ->
         [kind |-> "TypeError", name |-> "none",
          cause |-> "unresolvable", origin |-> cls]
    [] graph.ctor[cls] = "BodyTypeError" ->
         [kind |-> "TypeError", name |-> "none",
          cause |-> "ctor", origin |-> cls]
    [] OTHER ->
         [kind |-> "ValueError", name |-> "none",
          cause |-> "ctor", origin |-> cls]

\* lines 59-62: except TypeError: raise TypeError("... type %s ..." % cls);
\* every other exception passes through the try statement untouched
Handler(e, cls) ==
  IF e.kind = "TypeError" THEN [e EXCEPT !.name = cls] ELSE e

\* variant: `if self.build_stack:` -- anything at all is being built
InBuildStack_any(bs, cls) == bs # {}

\* variant: the check is left out
InBuildStack_never(bs, cls) == FALSE

\* line 103: cls in self.build_stack
InBuildStack(bs, cls) == cls \in bs

\* line 106: self.build_stack[cls] = True
Mark(bs, cls) == bs \cup {cls}

\* line 112: del self.build_stack[cls]
Unmark(bs, cls) == bs \ {cls}

\* number of completed constructions of cls
Built(cls) == Cardinality({i \in 1..Len(ctorLog) : ctorLog[i] = cls})

\* ------------------------------------------------------------------------
\* get / __build as the recursive functions they are in the source: the
\* container state st = [c, bs, objs, log] goes in, the outcome and the
\* state the call leaves behind come out.  hints stands for what
\* typing.get_type_hints answers for each class.
\* ------------------------------------------------------------------------
\* variant: the loop leaves out the last parameter
items_allButLast(params) == SubSeq(params, 1, Len(params) - 1)

\* line 108: params.items(), the parameters in declaration order
items(params) == params

Returned(st, v) ==
  [st |-> st, status |-> "ok", val |-> v, err |-> NoExc, args |-> <<>>]

Raised(st, e) ==
  [st |-> st, status |-> "err", val |-> NoEntry, err |-> e, args |-> <<>>]

\* lines 100 and 113: cls.__call__(**params)
construct_(st, cls, args) ==
  IF CtorRaises(cls)
    THEN Raised(st, CtorException(cls))
    ELSE LET n == Cardinality({i \in 1..Len(st.log) : st.log[i] = cls})
         IN  Returned([st EXCEPT !.log = Append(@, cls), !.objs[cls] = args],
                      NewInstance(cls, n + 1))

RECURSIVE get_(_, _, _)
RECURSIVE build_(_, _, _)
RECURSIVE params_(_, _, _, _)

\* lines 54-63
get_(hints, st, cls) ==
  IF InContainer(st.c, cls)
    THEN Returned(st, Lookup(st.c, cls))
    ELSE LET b == build_(hints, st, cls)
         IN  IF b.status = "err"
               THEN Raised(b.st, Handler(b.err, cls))
               ELSE get_(hints, [b.st EXCEPT !.c = set(@, cls, b.val)], cls)

\* lines 98-113
build_(hints, st, cls) ==
  IF hints[cls] = <<>>
    THEN construct_(st, cls, <<>>)
    ELSE IF InBuildStack(st.bs, cls)
      THEN Raised(st, RaiseCircular(cls))
      ELSE LET r == params_(hints, [st EXCEPT !.bs = Mark(@, cls)],
                            items(hints[cls]), <<>>)
           IN  IF r.status = "err"
                 THEN r
                 ELSE construct_([r.st EXCEPT !.bs = Unmark(@, cls)],
                                 cls, r.args)

\* lines 108-109: the loop, todo being the parameters still to resolve
params_(hints, st, todo, args) ==
  IF todo = <<>>
    THEN [Returned(st, NoEntry) EXCEPT !.args = args]
    ELSE LET r == get_(hints, st, Head(todo))
         IN  IF r.status = "err"
               THEN r
               ELSE params_(hints, r.st, Tail(todo), Append(args, r.val))

\* ------------------------------------------------------------------------
\* Graph analysis used to state what a call is expected to do
\* ------------------------------------------------------------------------
UncachedDeps(S, c) ==
  {u \in Types : c[u] = NoEntry /\ \E s \in S : u \in Range(get_type_hints(s))}

RECURSIVE Closure(_, _)
Closure(S, c) ==
  LET next == S \cup UncachedDeps(S, c)
  IN  IF next = S THEN S ELSE Closure(next, c)

\* the types a get(T) has to build
ToBuild(T, c) == IF c[T] # NoEntry THEN {} ELSE Closure({T}, c)

OnCycle(U, c) == U \in Closure(UncachedDeps({U}, c), c)

\* a cycle made of uncached types only is reachable from T
Cyclic(T, c) == \E U \in ToBuild(T, c) : OnCycle(U, c)

\* the graph below T can be built: no cycle, every constructor works
Resolvable(T, c) ==
  /\ ~Cyclic(T, c)
  /\ \A U \in ToBuild(T, c) : graph.ctor[U] = "ok"

\* ------------------------------------------------------------------------
\* Initial state: DependencyContainer.__init__ (lines 30-37)
\* ------------------------------------------------------------------------
Init ==
  /\ graph \in Graphs
  /\ container = [t \in Types |-> NoEntry]
  /\ build_stack = {}
  /\ stack = <<>>
  /\ exc = NoExc
  /\ ctorLog = <<>>
  /\ objs = [t \in Types |-> <<>>]
  /\ invoked = {}
  /\ result = NoResult
  /\ call = NoCall
  /\ lastGot = [t \in Types |-> NoEntry]
  /\ lastSet = [t \in Types |-> NoEntry]
  /\ firstOp = [t \in Types |-> "none"]
  /\ nsets = 0
  /\ everFailed = FALSE
  /\ setInBuild = {}

Frame(cls) == [cls |-> cls, pc |-> "get", args |-> <<>>, val |-> NoEntry]

Top == stack[Len(stack)]
Running == stack # <<>> /\ exc = NoExc
SetTop(f) == [stack EXCEPT ![Len(stack)] = f]
Pop == SubSeq(stack, 1, Len(stack) - 1)

NoteGet(cls) ==
  firstOp' = [firstOp EXCEPT ![cls] = IF @ = "none" THEN "get" ELSE @]

\* ------------------------------------------------------------------------
\* Top-level calls
\* ------------------------------------------------------------------------
\* container.get(cls) called by the program (line 39)
CallGet(cls) ==
  /\ stack = <<>>
  /\ exc = NoExc
  /\ cls \in graph.types
  /\ Len(ctorLog) < MaxCtor
  /\ stack' = <<Frame(cls)>>
  /\ call' = [cls |-> cls,
              fresh |-> (\A t \in Types : container[t] = NoEntry)
                        /\ build_stack = {},
              resolvable |-> Resolvable(cls, container),
              selfdep |-> container[cls] = NoEntry /\ OnCycle(cls, container),
              cyclic |-> Cyclic(cls, container),
              unrelated |-> ToBuild(cls, container) \cap build_stack = {},
              afterFailure |-> everFailed,
              prev |-> lastGot[cls],
              st0 |-> [c |-> container, bs |-> build_stack,
                       objs |-> objs, log |-> ctorLog]]
  /\ result' = NoResult
  /\ NoteGet(cls)
  /\ UNCHANGED <<graph, container, build_stack, exc, ctorLog, objs, invoked,
                 lastGot, lastSet, nsets, everFailed,
                 setInBuild>>

\* container.set(cls_name, set_instance) called by the program (lines 65-82)
CallSet(cls_name, set_instance) ==
  /\ stack = <<>>
  /\ exc = NoExc
  /\ cls_name \in graph.types
  /\ nsets < MaxSets
  /\ container' = set(container, cls_name, set_instance)
  /\ lastSet' = [lastSet EXCEPT ![cls_name] = set_instance]
  /\ lastGot' = [lastGot EXCEPT ![cls_name] = NoEntry]
  /\ firstOp' = [firstOp EXCEPT ![cls_name] = IF @ = "none" THEN "set" ELSE @]
  /\ nsets' = nsets + 1
  /\ setInBuild' = setInBuild \ {cls_name}
  /\ result' = NoResult
  /\ call' = NoCall
  /\ UNCHANGED <<graph, build_stack, stack, exc, ctorLog, objs, invoked,
                 everFailed>>

\* ------------------------------------------------------------------------
\* Steps of a running get
\* ------------------------------------------------------------------------
\* the innermost get returns v: its frame is popped and v is either the
\* value of the top-level call or params[key] of the calling __build (109)
Return(v) ==
  /\ lastGot' = [lastGot EXCEPT ![Top.cls] = v]
  /\ IF Len(stack) = 1
       THEN /\ stack' = <<>>
            /\ result' = [cls |-> Top.cls, status |-> "ok", val |-> v,
                          err |-> NoExc]
       ELSE /\ stack' = [Pop EXCEPT ![Len(stack) - 1].args = Append(@, v)]
            /\ UNCHANGED result

\* variant: the cycle check comes before the cache lookup
GetLookup_checksStack ==
  /\ Running
  /\ Top.pc = "get"
  /\ IF InBuildStack(build_stack, Top.cls)
       THEN /\ exc' = RaiseCircular(Top.cls)
            /\ UNCHANGED <<stack, result, lastGot>>
       ELSE /\ UNCHANGED exc
            /\ IF InContainer(container, Top.cls)
                 THEN Return(Lookup(container, Top.cls))
                 ELSE /\ stack' = SetTop([Top EXCEPT !.pc = "build"])
                      /\ UNCHANGED <<result, lastGot>>
  /\ UNCHANGED <<graph, container, build_stack, ctorLog, objs, invoked,
                 call, lastSet, firstOp, nsets, everFailed,
                 setInBuild>>

\* lines 54-55: cache hit returns the cached instance; a miss goes on to 57
GetLookup ==
  /\ Running
  /\ Top.pc = "get"
  /\ IF InContainer(container, Top.cls)
       THEN Return(Lookup(container, Top.cls))
       ELSE /\ stack' = SetTop([Top EXCEPT !.pc = "build"])
            /\ UNCHANGED <<result, lastGot>>
  /\ UNCHANGED <<graph, container, build_stack, exc, ctorLog, objs, invoked,
                 call, lastSet, firstOp, nsets, everFailed,
                 setInBuild>>

\* cls.__call__(*args) of lines 100 and 113
Construct(args) ==
  /\ Len(ctorLog) < MaxCtor
  /\ invoked' = invoked \cup {Top.cls}
  /\ IF CtorRaises(Top.cls)
    THEN /\ exc' = CtorException(Top.cls)
         /\ UNCHANGED <<stack, ctorLog, objs>>
    ELSE /\ stack' = SetTop([Top EXCEPT
                        !.pc = "store",
                        !.val = NewInstance(Top.cls, Built(Top.cls) + 1)])
         /\ ctorLog' = Append(ctorLog, Top.cls)
         /\ objs' = [objs EXCEPT ![Top.cls] = args]
         /\ UNCHANGED exc

\* variant: a leaf is marked as being built like any other type
BuildLeaf_marks ==
  /\ Running
  /\ Top.pc = "build"
  /\ get_type_hints(Top.cls) = <<>>
  /\ Construct(<<>>)
  /\ build_stack' = Mark(build_stack, Top.cls)
  /\ UNCHANGED <<graph, container, result, call, lastGot,
                 lastSet, firstOp, nsets, everFailed,
                 setInBuild>>

\* lines 98-100: no type hints: build the leaf directly
BuildLeaf ==
  /\ Running
  /\ Top.pc = "build"
  /\ get_type_hints(Top.cls) = <<>>
  /\ Construct(<<>>)
  /\ UNCHANGED <<graph, container, build_stack, result, call, lastGot,
                 lastSet, firstOp, nsets, everFailed,
                 setInBuild>>

\* lines 102-106: cycle check, then mark cls as being built
BuildCheck ==
  /\ Running
  /\ Top.pc = "build"
  /\ get_type_hints(Top.cls) # <<>>
  /\ IF InBuildStack(build_stack, Top.cls)
       THEN /\ exc' = RaiseCircular(Top.cls)
            /\ UNCHANGED <<stack, build_stack>>
       ELSE /\ build_stack' = Mark(build_stack, Top.cls)
            /\ stack' = SetTop([Top EXCEPT !.pc = "params"])
            /\ UNCHANGED exc
  /\ UNCHANGED <<graph, container, ctorLog, objs, invoked, result, call,
                 lastGot, lastSet, firstOp, nsets, everFailed,
                 setInBuild>>

\* lines 108-109: params[key] = self.get(value) for the next parameter
BuildParam ==
  /\ Running
  /\ Top.pc = "params"
  /\ Len(Top.args) < Len(get_type_hints(Top.cls))
  /\ Len(stack) < MaxDepth
  /\ LET value == get_type_hints(Top.cls)[Len(Top.args) + 1]
     IN  /\ stack' = Append(stack, Frame(value))
         /\ NoteGet(value)
  /\ UNCHANGED <<graph, container, build_stack, exc, ctorLog, objs, invoked,
                 result, call, lastGot, lastSet, nsets, everFailed,
                 setInBuild>>

\* variant: the loop over the parameters stops one parameter early
BuildDel_early ==
  /\ Running
  /\ Top.pc = "params"
  /\ Len(Top.args) + 1 >= Len(get_type_hints(Top.cls))
  /\ build_stack' = Unmark(build_stack, Top.cls)
  /\ stack' = SetTop([Top EXCEPT !.pc = "call"])
  /\ UNCHANGED <<graph, container, exc, ctorLog, objs, invoked, result, call,
                 lastGot, lastSet, firstOp, nsets, everFailed,
                 setInBuild>>

\* variant: the marker is still there when the constructor runs
BuildDel_keepsMark ==
  /\ Running
  /\ Top.pc = "params"
  /\ Len(Top.args) = Len(get_type_hints(Top.cls))
  /\ stack' = SetTop([Top EXCEPT !.pc = "call"])
  /\ UNCHANGED <<graph, container, build_stack, exc, ctorLog, objs, invoked,
                 result, call, lastGot, lastSet, firstOp, nsets, everFailed,
                 setInBuild>>

\* line 112: del self.build_stack[cls], once every parameter is resolved
BuildDel ==
  /\ Running
  /\ Top.pc = "params"
  /\ Len(Top.args) = Len(get_type_hints(Top.cls))
  /\ build_stack' = Unmark(build_stack, Top.cls)
  /\ stack' = SetTop([Top EXCEPT !.pc = "call"])
  /\ UNCHANGED <<graph, container, exc, ctorLog, objs, invoked, result, call,
                 lastGot, lastSet, firstOp, nsets, everFailed,
                 setInBuild>>

\* line 113: return cls.__call__(**params)
BuildCall ==
  /\ Running
  /\ Top.pc = "call"
  /\ Construct(Top.args)
  /\ UNCHANGED <<graph, container, build_stack, result, call, lastGot,
                 lastSet, firstOp, nsets, everFailed,
                 setInBuild>>

\* variant: the built instance is returned without being stored
GetStore_notCached ==
  /\ Running
  /\ Top.pc = "store"
  /\ Return(Top.val)
  /\ UNCHANGED <<graph, container, build_stack, exc, ctorLog, objs, invoked,
                 call, lastSet, firstOp, nsets, everFailed,
                 setInBuild>>

\* line 58: self.set(cls, <what __build returned>)
GetStore ==
  /\ Running
  /\ Top.pc = "store"
  /\ container' = set(container, Top.cls, Top.val)
  /\ stack' = SetTop([Top EXCEPT !.pc = "return"])
  /\ UNCHANGED <<graph, build_stack, exc, ctorLog, objs, invoked, result,
                 call, lastGot, lastSet, firstOp, nsets, everFailed,
                 setInBuild>>

\* line 63: return self.get(cls): a call in tail position, so the new get
\* takes the place of this one and returns to the same caller
GetReturn ==
  /\ Running
  /\ Top.pc = "return"
  /\ stack' = SetTop(Frame(Top.cls))
  /\ UNCHANGED <<graph, container, build_stack, exc, ctorLog, objs, invoked,
                 result, call, lastGot, lastSet, firstOp, nsets, everFailed,
                 setInBuild>>

\* variant: the failing get registers a placeholder for its type
Unwind_storesPartial ==
  /\ stack # <<>>
  /\ exc # NoExc
  /\ stack' = Pop
  /\ container' = set(container, Top.cls, NewInstance(Top.cls, 1))
  /\ IF Len(stack) = 1
       THEN /\ result' = [cls |-> Top.cls, status |-> "err", val |-> NoEntry,
                          err |-> Handler(exc, Top.cls)]
            /\ exc' = NoExc
            /\ everFailed' = TRUE
       ELSE /\ exc' = Handler(exc, Top.cls)
            /\ UNCHANGED <<result, everFailed>>
  /\ UNCHANGED <<graph, build_stack, ctorLog, objs, invoked, call, lastGot,
                 lastSet, firstOp, nsets, setInBuild>>

\* variant: a failed get empties the cache
Unwind_rollback ==
  /\ stack # <<>>
  /\ exc # NoExc
  /\ stack' = Pop
  /\ container' = [t \in Types |-> NoEntry]
  /\ IF Len(stack) = 1
       THEN /\ result' = [cls |-> Top.cls, status |-> "err", val |-> NoEntry,
                          err |-> Handler(exc, Top.cls)]
            /\ exc' = NoExc
            /\ everFailed' = TRUE
       ELSE /\ exc' = Handler(exc, Top.cls)
            /\ UNCHANGED <<result, everFailed>>
  /\ UNCHANGED <<graph, build_stack, ctorLog, objs, invoked, call, lastGot,
                 lastSet, firstOp, nsets, setInBuild>>

\* lines 57-62: an exception leaves the innermost get through its try
\* statement; when it leaves the outermost get the caller receives it
Unwind ==
  /\ stack # <<>>
  /\ exc # NoExc
  /\ stack' = Pop
  /\ IF Len(stack) = 1
       THEN /\ result' = [cls |-> Top.cls, status |-> "err", val |-> NoEntry,
                          err |-> Handler(exc, Top.cls)]
            /\ exc' = NoExc
            /\ everFailed' = TRUE
       ELSE /\ exc' = Handler(exc, Top.cls)
            /\ UNCHANGED <<result, everFailed>>
  /\ UNCHANGED <<graph, container, build_stack, ctorLog, objs, invoked, call,
                 lastGot, lastSet, firstOp, nsets, setInBuild>>

Next ==
  \/ \E cls \in Types : CallGet(cls)
  \/ \E cls \in Types, x \in Stubs : CallSet(cls, x)
  \/ GetLookup
  \/ BuildLeaf
  \/ BuildCheck
  \/ BuildParam
  \/ BuildDel
  \/ BuildCall
  \/ GetStore
  \/ GetReturn
  \/ Unwind

Spec == Init /\ [][Next]_vars

\* the build of cls has started and has not stored its instance yet
\* (between the cache miss of line 54 and the set of line 58)
BuildInFlight(cls) ==
  \E i \in 1..Len(stack) :
    stack[i].cls = cls /\ stack[i].pc \in {"build", "params", "call", "store"}

\* a constructor that is running (line 100 or 113) calls
\* container.set(cls_name, set_instance) on the container that is building it
CtorCallsSet(cls_name, set_instance) ==
  /\ Running
  /\ \/ Top.pc = "call"
     \/ Top.pc = "build" /\ get_type_hints(Top.cls) = <<>>
  /\ cls_name \in graph.types
  /\ nsets < MaxSets
  /\ container' = set(container, cls_name, set_instance)
  /\ lastSet' = [lastSet EXCEPT ![cls_name] = set_instance]
  /\ lastGot' = [lastGot EXCEPT ![cls_name] = NoEntry]
  /\ firstOp' = [firstOp EXCEPT ![cls_name] = IF @ = "none" THEN "set" ELSE @]
  /\ nsets' = nsets + 1
  /\ setInBuild' = IF BuildInFlight(cls_name)
                     THEN setInBuild \cup {cls_name}
                     ELSE setInBuild \ {cls_name}
  /\ UNCHANGED <<graph, build_stack, stack, exc, ctorLog, objs, invoked,
                 result, call, everFailed>>

NextReentrant ==
  \/ Next
  \/ \E cls \in Types, x \in Stubs : CtorCallsSet(cls, x)

\* the program with constructors that call set on the container
SpecReentrant == Init /\ [][NextReentrant]_vars

\* the statements of a get that has been called: get and set run to
\* completion without yielding, so a call that can take a step takes it
Step ==
  \/ GetLookup
  \/ BuildLeaf
  \/ BuildCheck
  \/ BuildParam
  \/ BuildDel
  \/ BuildCall
  \/ GetStore
  \/ GetReturn
  \/ Unwind

FairSpec == Spec /\ WF_vars(Step)

\* ------------------------------------------------------------------------
\* Type invariant
\* ------------------------------------------------------------------------
Instances == Stubs \cup {NewInstance(t, n) : t \in Types, n \in 1..MaxCtor}

TypeOK ==
  /\ graph \in Graphs
  /\ \A t \in Types : container[t] \in Instances \cup {NoEntry}
  /\ build_stack \subseteq Types
  /\ Len(stack) <= MaxDepth
  /\ \A i \in 1..Len(stack) :
       /\ stack[i].cls \in graph.types
       /\ stack[i].pc \in {"get", "build", "params", "call", "store", "return"}
  /\ exc.kind \in {"none", "TypeError", "CircularDependencyError", "ValueError"}
  /\ nsets \in 0..MaxSets

\* ========================================================================
\* Claims
\* ========================================================================
Done == stack = <<>> /\ result.status # "none"
Ok   == Done /\ result.status = "ok"
Err  == Done /\ result.status = "err"

\* C1 -- Idempotence of get: between two get(T) calls that return (top-level
\* or nested) with no set(T, _) between them, the instance returned is the
\* same: what get(T) last returned changes only from or to "nothing yet".
C1_GetIdempotent ==
  [][\A t \in Types :
       (lastGot[t] # NoEntry /\ lastGot'[t] # NoEntry)
         => lastGot'[t] = lastGot[t]]_vars

\* a second top-level get(T) has returned the auto-constructed instance the
\* first one returned
C1_Witness ==
  /\ Ok
  /\ call.prev # NoEntry
  /\ result.val = call.prev
  /\ result.val.cls = result.cls

\* C2 -- Cycle detection: a get(T) on a fresh container for a type T that
\* transitively depends on itself fails, and the error the caller receives
\* is a CircularDependencyError.
C2_CycleRaisesCircularDependencyError ==
  (Done /\ call.fresh /\ call.selfdep)
    => (result.status = "err" /\ result.err.kind = "CircularDependencyError")

\* C3 -- Cleanup invariant: whenever no get is executing, build_stack is
\* empty (after a get that returned and after a get that failed alike).
C3_BuildStackEmptyAtRest ==
  stack = <<>> => build_stack = {}

\* C4 -- Retry after a failure: once some get has failed, a later get(T)
\* whose dependency graph is buildable at the time of the call (corrected by
\* set, or unrelated to the failed chain) returns an instance and reports no
\* circular dependency.
C4_RetryAfterFailureSucceeds ==
  (Done /\ call.afterFailure /\ call.resolvable)
    => (result.status = "ok" /\ result.err.cause # "cycle")

\* C5 -- Override precedence: when the first call naming T is set(T, custom),
\* T's constructor is never invoked, T's entry is the instance most recently
\* set for T, every get(T) returns it, and every constructor invoked
\* afterwards that has a parameter of type T receives it.
C5_OverridePrecedence ==
  /\ [](\A t \in Types :
          firstOp[t] = "set" =>
            /\ t \notin invoked
            /\ Built(t) = 0
            /\ container[t] = lastSet[t]
            /\ lastGot[t] \in {NoEntry, lastSet[t]})
  /\ [][\A u \in Types :
          Built(u)' > Built(u) =>
            \A i \in 1..Len(get_type_hints(u)) :
              firstOp[get_type_hints(u)[i]] = "set"
                => /\ Len(objs'[u]) >= i
                   /\ objs'[u][i] = lastSet[get_type_hints(u)[i]]]_vars

\* D is overridden before any get(D); B, built afterwards, received the
\* override as its parameter
C5_Witness ==
  /\ graph = Diamond
  /\ firstOp["D"] = "set"
  /\ Built("B") = 1
  /\ objs["B"] = <<lastSet["D"]>>
  /\ lastGot["D"] = lastSet["D"]
  /\ "D" \notin invoked

\* C6 -- Singleton sharing (diamond): with A(b: B, c: C), B(d: D), C(d: D),
\* get(A) on a fresh container returns; D's constructor is never completed
\* twice; B and C were constructed with the same D instance, which is the
\* cached one and the one a later get(D) returns.
C6_DiamondSharesOneD ==
  graph = Diamond =>
    /\ (nsets = 0 => Built("D") <= 1)
    /\ (Done /\ call.fresh /\ call.cls = "A") =>
         /\ result.status = "ok"
         /\ Built("D") = 1
         /\ objs["B"] = <<NewInstance("D", 1)>>
         /\ objs["C"] = objs["B"]
         /\ container["D"] = objs["B"][1]
         /\ objs["A"] = <<container["B"], container["C"]>>
    /\ (Ok /\ result.cls = "D" /\ nsets = 0 /\ Built("B") = 1 /\ Built("C") = 1) =>
         /\ result.val = objs["B"][1]
         /\ result.val = objs["C"][1]

\* get(A) on the fresh diamond container has returned
C6_Witness ==
  /\ graph = Diamond
  /\ Ok
  /\ call.fresh
  /\ call.cls = "A"
  /\ Built("D") = 1

\* C7 -- Unresolvable parameter: a get that fails because a type without
\* usable constructor metadata has to be built fails with the
\* unresolvable-type error (TypeError in the source), and the error names
\* the offending type.
C7_UnresolvableNamesOffendingType ==
  (Err /\ result.err.cause = "unresolvable")
    => (result.err.kind = "TypeError" /\ result.err.name = result.err.origin)

\* position of the first completed construction of t in ctorLog (0: none)
FirstPos(t) ==
  IF Built(t) = 0 THEN 0
  ELSE CHOOSE i \in 1..Len(ctorLog) :
         ctorLog[i] = t /\ \A j \in 1..(i - 1) : ctorLog[j] # t

InFlight == {stack[i].cls : i \in 1..Len(stack)}

\* C8 -- No partial results on failure: while an exception propagates no get
\* still on the call chain has a cache entry; a failed get(T) leaves T without
\* entry; and an entry is written only by a top-level set or, inside get, for
\* the type whose own build has just completed, with the instance it built.
C8_NoPartialResults ==
  /\ [](exc # NoExc => \A t \in InFlight : container[t] = NoEntry)
  /\ [](Err => container[result.cls] = NoEntry)
  /\ [][\A t \in Types :
          container'[t] # container[t] =>
            \/ stack = <<>>
            \/ /\ exc = NoExc
               /\ Top.cls = t
               /\ Top.pc = "store"
               /\ container'[t] = Top.val
               /\ Top.val = NewInstance(t, Built(t))]_vars

\* get(A) failed two levels down after C had been built and cached: the
\* entries of A and B are absent, the entry of C is there
C8_Witness ==
  /\ graph = Raising
  /\ Err
  /\ result.cls = "A"
  /\ container["A"] = NoEntry
  /\ container["B"] = NoEntry
  /\ container["C"] = NewInstance("C", 1)

\* C9 -- Fully constructed result: a get(T) that returned left T in the
\* cache; every auto-constructed U received one argument per parameter, none
\* missing, every parameter type of U has a cache entry, and an
\* auto-constructed argument was completed before U's constructor was.
C9_FullyConstructed ==
  /\ Ok => (container[result.cls] # NoEntry /\ result.val = container[result.cls])
  /\ \A u \in Types :
       Built(u) >= 1 =>
         /\ Len(objs[u]) = Len(get_type_hints(u))
         /\ \A i \in 1..Len(objs[u]) :
              /\ objs[u][i] # NoEntry
              /\ container[get_type_hints(u)[i]] # NoEntry
              /\ objs[u][i] \notin Stubs =>
                   /\ Built(objs[u][i].cls) >= 1
                   /\ FirstPos(objs[u][i].cls) < FirstPos(u)

\* get(A) returned with the whole diamond built by the container
C9_Witness ==
  /\ graph = Diamond
  /\ Ok
  /\ result.cls = "A"
  /\ ctorLog = <<"D", "B", "C", "A">>

\* C10 -- set is an unconditional overwrite with a narrow frame: set(T, x)
\* is always possible between calls and raises nothing; it changes the entry
\* of T to x and no other entry, and leaves build_stack alone; every get(T)
\* that returns afterwards returns x, whatever the entry of T was before.
C10_SetOverwritesOnlyItsKey ==
  /\ [](stack = <<>> /\ nsets < MaxSets =>
          \A t \in graph.types, x \in Stubs : ENABLED CallSet(t, x))
  /\ [][nsets' = nsets + 1 =>
          /\ exc' = NoExc
          /\ build_stack' = build_stack
          /\ \E t \in Types :
               /\ lastSet'[t] # NoEntry
               /\ container' = [container EXCEPT ![t] = lastSet'[t]]
               /\ lastSet' = [lastSet EXCEPT ![t] = lastSet'[t]]]_vars
  /\ [](\A t \in Types :
          (lastSet[t] # NoEntry /\ lastGot[t] # NoEntry) => lastGot[t] = lastSet[t])

\* T was auto-constructed, then set to a stub, then set to another stub, and
\* get(T) returned the latter
C10_Witness ==
  /\ Ok
  /\ Built(result.cls) = 1
  /\ nsets = 2
  /\ result.val = lastSet[result.cls]
  /\ result.val \in Stubs
  /\ container[result.cls] = result.val

\* C11 -- Constructor failures are not masked: when a get fails because a
\* constructor body raised (whatever the class of the exception), the caller
\* receives that very exception, unchanged.
C11_CtorErrorUnchanged ==
  (Err /\ result.err.cause = "ctor")
    => result.err = CtorException(result.err.origin)

\* C13 -- Cache monotonicity: a type that has a cache entry keeps having
\* one, through every step of every get (failing ones included) and every
\* set; an entry appears or changes only in a set call or in the store of
\* a get.
C13_CacheNeverShrinks ==
  [][/\ \A t \in Types : container[t] # NoEntry => container'[t] # NoEntry
     /\ container' # container =>
          \/ nsets' = nsets + 1
          \/ (stack # <<>> /\ Top.pc = "store" /\ exc = NoExc)]_vars

\* a get has failed on a container that holds an entry made by set and an
\* entry made by a build; both are still there
C13_Witness ==
  /\ Err
  /\ \E t \in Types : container[t] \in Stubs
  /\ \E t \in Types : container[t] = NewInstance(t, 1)

\* C15 -- Cache hits bypass cycle detection: a get(T) that finds T in the
\* cache returns the cached instance in that very step; no constructor is
\* invoked, nothing is built, build_stack and the cache are left as they
\* were and no exception is raised, whether or not T is in build_stack.
C15_CacheHitBypassesCycleCheck ==
  [][(Running /\ Top.pc = "get" /\ container[Top.cls] # NoEntry) =>
       /\ Len(stack') = Len(stack) - 1
       /\ lastGot'[Top.cls] = container[Top.cls]
       /\ (Len(stack) = 1 =>
             result' = [cls |-> Top.cls, status |-> "ok",
                        val |-> container[Top.cls], err |-> NoExc])
       /\ (Len(stack) > 1 =>
             stack'[Len(stack) - 1].args =
               Append(stack[Len(stack) - 1].args, container[Top.cls]))
       /\ exc' = NoExc
       /\ build_stack' = build_stack
       /\ container' = container
       /\ invoked' = invoked
       /\ ctorLog' = ctorLog]_vars

\* get(T) has returned the cached instance of a T that is in build_stack
C15_Witness ==
  /\ Ok
  /\ result.cls \in build_stack
  /\ result.val = container[result.cls]

IsLeaf(t) == get_type_hints(t) = <<>>

\* C16 -- Leaf construction: a type with no constructor parameters is never
\* in build_stack; building it on a cache miss is one constructor call that
\* starts no nested get and leaves build_stack alone; and a get for a leaf
\* whose constructor works returns whatever build_stack holds.
C16_LeafConstruction ==
  /\ [](\A t \in graph.types : IsLeaf(t) => t \notin build_stack)
  /\ [](\A t \in graph.types :
          (Done /\ call.cls = t /\ IsLeaf(t) /\ graph.ctor[t] = "ok") => Ok)
  /\ [][(Running /\ Top.pc = "build" /\ IsLeaf(Top.cls)) =>
          /\ build_stack' = build_stack
          /\ Len(stack') = Len(stack)
          /\ invoked' = invoked \cup {Top.cls}
          /\ (graph.ctor[Top.cls] = "ok" =>
                /\ ctorLog' = Append(ctorLog, Top.cls)
                /\ objs'[Top.cls] = <<>>
                /\ stack'[Len(stack)].pc = "store")]_vars

\* a leaf was built by a top-level get while stale markers of other types
\* were in build_stack
C16_Witness ==
  /\ Ok
  /\ IsLeaf(result.cls)
  /\ call.prev = NoEntry
  /\ result.val = NewInstance(result.cls, 1)
  /\ build_stack # {}

\* the order of the positions of one get call (lines 54, 98, 103-109, 112,
\* 113, 58, 63)
PcOrder ==
  {<<"get", "build">>, <<"build", "params">>, <<"build", "store">>,
   <<"params", "call">>, <<"call", "store">>, <<"store", "return">>,
   <<"return", "get">>}

\* C17 -- Build step ordering: a get of a non-leaf type on a cache miss goes
\* through cycle check, marking, one get per parameter in declaration order,
\* unmarking, constructor call, store, in this order: the type is in
\* build_stack exactly while its parameters are resolved and is not when its
\* constructor runs or its instance is stored.
C17_BuildStepOrder ==
  /\ [](\A i \in 1..Len(stack) :
          /\ stack[i].pc = "params" =>
               /\ stack[i].cls \in build_stack
               /\ Len(stack[i].args) <= Len(get_type_hints(stack[i].cls))
               /\ (i < Len(stack) =>
                     stack[i + 1].cls =
                       get_type_hints(stack[i].cls)[Len(stack[i].args) + 1])
          /\ stack[i].pc \in {"call", "store", "return"} =>
               stack[i].cls \notin build_stack
          /\ stack[i].pc = "call" =>
               Len(stack[i].args) = Len(get_type_hints(stack[i].cls))
          /\ stack[i].pc = "store" => container[stack[i].cls] = NoEntry
          /\ stack[i].pc = "return" => container[stack[i].cls] = stack[i].val)
  /\ [][/\ \A i \in 1..Len(stack) :
             (i <= Len(stack') /\ stack'[i].pc # stack[i].pc)
               => <<stack[i].pc, stack'[i].pc>> \in PcOrder
        /\ (Running /\ Top.pc = "build" /\ ~IsLeaf(Top.cls)
              /\ Top.cls \notin build_stack) =>
             (build_stack' = build_stack \cup {Top.cls}
                /\ stack' = SetTop([Top EXCEPT !.pc = "params"]))
        /\ (Running /\ Len(stack') = Len(stack) - 1 /\ Len(stack) > 1
              /\ exc' = NoExc) =>
             stack'[Len(stack) - 1].args =
               Append(stack[Len(stack) - 1].args,
                      container[get_type_hints(stack[Len(stack) - 1].cls)
                                  [Len(stack[Len(stack) - 1].args) + 1]])
        /\ \A u \in Types :
             (Built(u)' > Built(u) /\ ~IsLeaf(u)) =>
               /\ Top.pc = "call"
               /\ objs'[u] = [i \in 1..Len(get_type_hints(u)) |->
                                container[get_type_hints(u)[i]]]]_vars

\* A(b: B, c: C) of the diamond is about to be constructed: both parameters
\* are resolved in declaration order and A is no longer in build_stack
C17_Witness ==
  /\ graph = Diamond
  /\ stack # <<>>
  /\ Top.cls = "A"
  /\ Top.pc = "call"
  /\ Top.args = <<NewInstance("B", 1), NewInstance("C", 1)>>
  /\ "A" \notin build_stack
  /\ ctorLog = <<"D", "B", "C">>

\* C19 -- No false cycle reports: while no get has failed yet, a get(T) fails
\* with the cycle error only if a cycle made of uncached types is reachable
\* from T through uncached types; a get whose graph has no such cycle (every
\* cycle broken by a set, or shared dependencies only) and whose constructors
\* work returns.
C19_NoFalseCycleReport ==
  (Done /\ ~call.afterFailure) =>
    /\ (result.err.cause = "cycle" => call.cyclic)
    /\ (call.resolvable => result.status = "ok")
    /\ (result.status = "ok" => build_stack = {})

\* A(b: B), B(a: A) with B set beforehand: get(A) returned, A received the
\* set instance, and no get has ever failed
C19_Witness ==
  /\ graph = Cycle
  /\ Ok
  /\ ~everFailed
  /\ result.cls = "A"
  /\ container["B"] \in Stubs
  /\ objs["A"] = <<container["B"]>>

\* C20 -- At most one successful construction per type: no type's constructor
\* completes twice, and a constructor completes only for a type that has no
\* cache entry at that moment.
C20_BuiltAtMostOnce ==
  /\ [](\A t \in Types : Built(t) <= 1)
  /\ [][\A t \in Types :
          Built(t)' > Built(t) => (container[t] = NoEntry /\ Built(t) = 0)]_vars

\* every type of the diamond was built once, one was overridden by set
\* afterwards, and gets kept returning without any rebuild
C20_Witness ==
  /\ graph = Diamond
  /\ Ok
  /\ Len(ctorLog) = 4
  /\ nsets > 0
  /\ call.prev # NoEntry
  /\ \A t \in Types : Built(t) = 1

\* C12 (as stated) -- the depth of the recursion of get never exceeds the
\* number of types.
C12_DepthAtMostNumberOfTypes ==
  Len(stack) <= Cardinality(graph.types)

\* C12 (amended) -- Termination: every get call that has started comes to
\* an end (it returns or fails), and the number of nested get calls never
\* exceeds the number of types plus one.
C12_GetTerminates ==
  /\ (stack # <<>>) ~> (stack = <<>> /\ result.status \in {"ok", "err"})
  /\ [](Len(stack) <= Cardinality(graph.types) + 1)

\* the cycle of three types was followed to the end: four nested get calls
\* for three types, and the call has ended (with an error)
C12_Witness ==
  /\ graph = Cycle3
  /\ Err
  /\ result.err.cause = "cycle"
  /\ build_stack = {"A", "B", "C"}

\* C14 -- set during an in-flight build is clobbered: when set(T, x) runs
\* while T's own build is in flight, x is T's entry until that build stores;
\* the store of the build (line 58) replaces x by the instance just built, and
\* that get(T) and every later get(T) return the built instance, not x.
C14_SetDuringBuildIsClobbered ==
  /\ [](\A t \in setInBuild :
          /\ lastSet[t] \in Stubs
          /\ BuildInFlight(t) => container[t] = lastSet[t]
          /\ (Built(t) >= 1 /\ ~BuildInFlight(t)) =>
               /\ container[t] = NewInstance(t, 1)
               /\ lastGot[t] \in {NoEntry, NewInstance(t, 1)})
  /\ [][(Running /\ Top.pc = "store" /\ Top.cls \in setInBuild) =>
          /\ container[Top.cls] = lastSet[Top.cls]
          /\ container'[Top.cls] = Top.val
          /\ Top.val = NewInstance(Top.cls, 1)]_vars

\* set(T, x) ran while T was being built; the get(T) that was building and a
\* later top-level get(T) both returned the built instance
C14_Witness ==
  /\ Ok
  /\ result.cls \in setInBuild
  /\ lastSet[result.cls] \in Stubs
  /\ call.prev = NewInstance(result.cls, 1)
  /\ result.val = NewInstance(result.cls, 1)
  /\ container[result.cls] = result.val

\* the orderings of a parameter list
Perms(s) ==
  {[i \in 1..Len(s) |-> s[f[i]]] :
     f \in {f \in [1..Len(s) -> 1..Len(s)] :
              \A i, j \in 1..Len(s) : i # j => f[i] # f[j]}}

\* the type hints with the parameters of one constructor reordered
Reordered ==
  UNION {{[graph.hints EXCEPT ![t] = p] : p \in Perms(graph.hints[t])} :
           t \in graph.types}

\* which instance each object constructed since st0 received for each
\* parameter type
Wiring(hints, st0, st) ==
  LET new == {st.log[i] : i \in (Len(st0.log) + 1)..Len(st.log)}
  IN  [u \in Types |->
         IF u \in new
           THEN {<<hints[u][i], st.objs[u][i]>> : i \in 1..Len(st.objs[u])}
           ELSE {}]

Now == [c |-> container, bs |-> build_stack, objs |-> objs, log |-> ctorLog]

SameFinalState(hints1, r1, hints2, r2) ==
  /\ r1.val = r2.val
  /\ r1.st.c = r2.st.c
  /\ r1.st.bs = r2.st.bs
  /\ Wiring(hints1, Now, r1.st) = Wiring(hints2, Now, r2.st)

\* C18 (as stated) -- for any two orderings of a constructor's parameters,
\* get(T) from the same container state ends with the same outcome (success,
\* or the same kind of failure) and the same final container state.
C18_ParameterOrderIrrelevant ==
  stack = <<>> =>
    \A T \in graph.types, h2 \in Reordered :
      LET r1 == get_(graph.hints, Now, T)
          r2 == get_(h2, Now, T)
      IN  /\ r1.status = r2.status
          /\ r1.err.kind = r2.err.kind
          /\ SameFinalState(graph.hints, r1, h2, r2)

\* C18 (amended) -- what a completed get leaves behind is what the recursive
\* get computes from the state at the call; for any two orderings of a
\* constructor's parameters get(T) from the same container state returns
\* under both or fails under both, and when it returns the instance and the
\* final container state (entries, wiring, build_stack) are the same.
C18_OrderIrrelevantWhenGetReturns ==
  /\ Done =>
       LET r == get_(graph.hints, call.st0, call.cls)
       IN  /\ r.status = result.status
           /\ r.val = result.val
           /\ r.err = result.err
           /\ r.st = Now
  /\ stack = <<>> =>
       \A T \in graph.types, h2 \in Reordered :
         LET r1 == get_(graph.hints, Now, T)
             r2 == get_(h2, Now, T)
         IN  /\ r1.status = r2.status
             /\ r1.status = "ok" => SameFinalState(graph.hints, r1, h2, r2)

\* get(A) for A(b: B, c: C) of the diamond returned on a container where D
\* had been set, and would have ended in the same state for A(c: C, b: B)
C18_Witness ==
  /\ graph = Diamond
  /\ Ok
  /\ result.cls = "A"
  /\ call.st0.c["D"] \in Stubs
  /\ call.st0.c["B"] = NoEntry
  /\ call.st0.c["C"] = NoEntry
  /\ LET h2 == [graph.hints EXCEPT !["A"] = <<"C", "B">>]
         r2 == get_(h2, call.st0, "A")
     IN  /\ h2 \in Reordered
         /\ r2.st.c = container
         /\ r2.st.log = <<"C", "B", "A">>
         /\ ctorLog = <<"B", "C", "A">>

====
